---- MODULE Spec2Model ----
(***************************************************************************)
(* A model of clickhouse-optimizer: ClickHouseOptimizer.optimize_table and *)
(* the methods it calls (src/src/clickhouse_optimizer/optimizer.py), and   *)
(* main (src/src/clickhouse_optimizer/cli.py).                             *)
(*                                                                         *)
(* A Python string is a sequence of tokens.  A token is one blank, one     *)
(* line feed, one '#', one non-ASCII byte, or a run of other characters.   *)
(***************************************************************************)
EXTENDS Integers, Sequences, FiniteSets, TLC

\* ------------------------------------------------------------------ bounds

\* Number of partition ids the catalog may hold.
MaxPartitions == 3
\* Number of successive invocations of main sharing the checkpoint file.
MaxRuns == 2
\* Largest value of time.time() (seconds since the process started).
MaxClock == 3
\* Number of changes other processes make to system.parts and to the
\* checkpoint file while optimize_table runs.
MaxChanges == 1

\* ------------------------------------------------------------- value sets

\* Partition ids, in the order of ORDER BY partition_id.
AllPartitionIds == <<"2024-01", "2024-02", "2024-03", "2024-04", "2024-05">>

PartitionIds == {AllPartitionIds[k] : k \in 1..MaxPartitions}

\* The place of a partition id in that order.
Rank(p) == CHOOSE k \in 1..Len(AllPartitionIds) : AllPartitionIds[k] = p

\* What system.parts holds for one partition id of the table: no active
\* part, one active part modified within the last 30 days, or several.
PartStates == {"none", "one_recent", "many"}

\* Values of the settings optimize_timeout and poll_interval (seconds):
\* those every catalog and checkpoint file are run with, and the pairs
\* one catalog is run with.
OptimizeTimeouts == {1}

PollIntervals == {1}

Timings == {<<-1, 1>>, <<0, 1>>, <<2, 1>>, <<1, 2>>, <<2, 2>>}

\* Seconds a time.sleep(poll_interval) and the query after it take beyond
\* poll_interval.
Jitters == {0, 1}

\* settings.table_name and settings.database, and another table and database.
TableName == "events"

Database == "prod"

\* Exception classes.
OSErrorClasses == {"OSError", "TimeoutError"}

ExceptionClasses == OSErrorClasses \cup {"Error", "ValueError", "TypeError", "RuntimeError"}

\* What a client.execute can raise: clickhouse_driver.errors.Error or OSError.
TransportErrors == {"Error", "OSError"}

\* ---------------------------------------------------------------- strings

Blank == " "

LineFeed == "\n"

Hash == "#"

\* A byte outside ASCII.
NonAscii == "\\x80"

Whitespace == {Blank, LineFeed}

\* The string of a partition id.
Str(p) == <<p>>

RECURSIVE LStrip(_)
LStrip(s) == IF s # <<>> /\ Head(s) \in Whitespace THEN LStrip(Tail(s)) ELSE s

RECURSIVE RStrip(_)
RStrip(s) ==
    IF s # <<>> /\ s[Len(s)] \in Whitespace THEN RStrip(SubSeq(s, 1, Len(s) - 1)) ELSE s

\* str.strip()
Strip(s) == RStrip(LStrip(s))

\* str.startswith('#')
StartsWithHash(s) == s # <<>> /\ Head(s) = Hash

\* Whether decoding the line as ASCII raises UnicodeDecodeError.
DecodeFails(line) == \E k \in 1..Len(line) : line[k] = NonAscii

\* datetime.now(UTC).strftime('%Y-%m-%d %H:%M:%S')
Timestamp == <<"DATE", Blank, "TIME">>

\* f'{partition_id}  # completed at {timestamp}\n'
CheckpointLine(p) ==
    Str(p) \o <<Blank, Blank, Hash, Blank, "completed", Blank, "at", Blank>>
           \o Timestamp \o <<LineFeed>>

\* Lines a checkpoint file may hold before the first run.
BareLine(p) == Str(p) \o <<LineFeed>>

CommentLine == <<Hash, Blank, "note", LineFeed>>

BlankLine == <<LineFeed>>

BinaryLine == <<NonAscii, LineFeed>>


\* The checkpoint file: whether the path exists, whether it can be opened
\* for reading, whether it (or, absent, its directory) can be written,
\* and its lines.
File(exists, readable, writable, lines) ==
    [exists |-> exists, readable |-> readable, writable |-> writable, lines |-> lines]

RECURSIVE BareLines(_)
BareLines(ids) ==
    IF ids = <<>> THEN <<>> ELSE <<BareLine(Head(ids))>> \o BareLines(Tail(ids))

\* The ids of S in the order of ORDER BY partition_id.
RECURSIVE OrderFrom(_, _)
OrderFrom(k, S) ==
    IF k > Len(AllPartitionIds) THEN <<>>
    ELSE (IF AllPartitionIds[k] \in S THEN <<AllPartitionIds[k]>> ELSE <<>>)
         \o OrderFrom(k + 1, S)

OrderByPartitionId(S) == OrderFrom(1, S)

\* The checkpoint files the first run may find: none (in a directory that
\* can or cannot be written), an unreadable one, and readable ones that
\* hold a comment, an empty line and the ids of some partitions, one of
\* them with a line of binary data.
Header == <<CommentLine, BlankLine>>

InitialContents ==
    {Header \o BareLines(OrderByPartitionId(S)) :
        S \in SUBSET {AllPartitionIds[1], AllPartitionIds[2]}}
    \cup {Header \o <<BareLine(AllPartitionIds[1]), BinaryLine>>}

NoFile == File(FALSE, TRUE, TRUE, <<>>)

InitialFiles ==
    {NoFile, File(FALSE, TRUE, FALSE, <<>>),
     File(TRUE, FALSE, FALSE, <<BareLine(AllPartitionIds[1])>>)}
    \cup {File(TRUE, TRUE, TRUE, c) : c \in InitialContents}

\* ------------------------------------------------- the optimizer's methods

\* get_recent_single_part_partitions: the ids with one active part
\* modified within the last 30 days.
GetRecentSinglePartPartitions(sysparts) ==
    {p \in DOMAIN sysparts : sysparts[p] = "one_recent"}

RECURSIVE NotIn(_, _)
NotIn(rows, excluded) ==
    IF rows = <<>> THEN <<>>
    ELSE (IF Head(rows) \in excluded THEN <<>> ELSE <<Head(rows)>>)
         \o NotIn(Tail(rows), excluded)

\* get_table_partitions that does not filter out the excluded partitions.
GetTablePartitionsNoExclusion(sysparts) ==
    OrderByPartitionId({p \in DOMAIN sysparts : sysparts[p] # "none"})

\* get_table_partitions: SELECT DISTINCT ... ORDER BY partition_id, without
\* the excluded ids.  A row is written as its partition_id.
GetTablePartitions(sysparts) ==
    NotIn(OrderByPartitionId({p \in DOMAIN sysparts : sysparts[p] # "none"}),
          GetRecentSinglePartPartitions(sysparts))

\* check_active_merges: the rows of system.merges the query selects.
CheckActiveMerges(merges, partition_id) ==
    {row \in merges :
        /\ row.table = TableName
        /\ (partition_id # "" => row.partition_id = partition_id)}

\* load_checkpoint whose handler returns what was read before the error.
LoadCheckpointPartial(configured, f) ==
    IF ~configured \/ ~f.exists THEN {}
    ELSE IF ~f.readable THEN {}
    ELSE LET bad == {k \in 1..Len(f.lines) : DecodeFails(f.lines[k])}
             upto == IF bad = {} THEN Len(f.lines)
                     ELSE (CHOOSE k \in bad : \A j \in bad : k <= j) - 1
         IN  {Strip(f.lines[k]) : k \in {n \in 1..upto :
                 Strip(f.lines[n]) # <<>> /\ ~StartsWithHash(Strip(f.lines[n]))}}

\* load_checkpoint
LoadCheckpoint(configured, f) ==
    IF ~configured \/ ~f.exists THEN {}
    ELSE IF ~f.readable THEN {}
    ELSE IF \E k \in 1..Len(f.lines) : DecodeFails(f.lines[k]) THEN {}
    ELSE {Strip(f.lines[k]) : k \in {n \in 1..Len(f.lines) :
              Strip(f.lines[n]) # <<>> /\ ~StartsWithHash(Strip(f.lines[n]))}}

\* optimize_table, lines 291-295: the partitions not in the checkpoint.
RECURSIVE FilterCompleted(_, _)
FilterCompleted(ps, completed) ==
    IF ps = <<>> THEN <<>>
    ELSE (IF Str(Head(ps)) \in completed THEN <<>> ELSE <<Head(ps)>>)
         \o FilterCompleted(Tail(ps), completed)

\* A loop that computes its list again from the catalog at each iteration.
LoopListRequeried(snapshot, sysparts, completed) ==
    FilterCompleted(GetTablePartitions(sysparts), completed)

\* optimize_table, line 327: the loop iterates over the local list
\* partitions of lines 280-295, whatever system.parts holds by now.
LoopList(snapshot, sysparts, completed) == snapshot

\* A handler at line 201 that names errors.Error alone.
ExecuteErrorCaughtDriverOnly(e) == e = "Error"

\* optimize_partition, line 201: except (errors.Error, OSError).
ExecuteErrorCaught(e) == e \in {"Error"} \cup OSErrorClasses

\* A start_time taken when the process starts.
WaitStartTimeOfProcess(clock) == 0

\* wait_for_merges_completion, line 137: start_time = time.time().
WaitStartTime(clock) == clock

\* A wait without the test of lines 150-155.
WaitTimedOutNever(clock, started, timeout) == FALSE

\* wait_for_merges_completion, lines 150-151.
WaitTimedOut(clock, started, timeout) == clock - started > timeout

\* A wait that tests the timeout before it looks at the rows.
PollOutcomeTimeoutFirst(rows, clock, started, timeout) ==
    IF WaitTimedOut(clock, started, timeout) THEN "timeout"
    ELSE IF rows = {} THEN "done"
    ELSE "sleep"

\* wait_for_merges_completion, lines 142-177, after check_active_merges
\* returned rows: break, raise TimeoutError, or sleep and poll again.
PollOutcome(rows, clock, started, timeout) ==
    IF rows = {} THEN "done"
    ELSE IF WaitTimedOut(clock, started, timeout) THEN "timeout"
    ELSE "sleep"

\* An optimize_partition that does not wait for the merges.
AfterCommandDone == "save"

\* A wait that sleeps before its first check_active_merges.
AfterCommandSleep == "sleep"

\* optimize_partition, line 220, and wait_for_merges_completion, lines
\* 137-140: after the command the wait begins, with a check_active_merges.
AfterCommand == "poll"

\* An optimize_partition that ignores dry_run.
IssuesCommandAlways(dry) == TRUE

\* optimize_partition, line 189: the command is sent unless dry_run.
IssuesCommand(dry) == ~dry

\* An optimize_table that records completions of real runs only.
RecordsCompletionUnlessDryRun(dry) == ~dry

\* optimize_table, line 347: save_partition_to_checkpoint is called after
\* optimize_partition returned, in a dry run as in a real one.
RecordsCompletion(dry) == TRUE

\* A handler at line 368 that names BaseException.
LoopErrorCaughtBase(e) == TRUE

\* optimize_table, line 368: except Exception.
LoopErrorCaught(e) == e \in ExceptionClasses

\* A handler that logs the failure and does not raise it again.
LoopSwallows(e) == FALSE

\* optimize_table, line 374: the handler raises the exception again.
LoopReraises(e) == TRUE

\* A main without the handler of KeyboardInterrupt.
MainExitCodeNoCancel(e) == IF e = "none" THEN 0 ELSE 1

\* main: the process exit status for what optimize_table raised ("none":
\* it returned).  An exception no handler catches ends the interpreter
\* with status 1.
MainExitCode(e) ==
    IF e = "none" THEN 0
    ELSE IF e \in {"KeyboardInterrupt", "SystemExit"} THEN 130
    ELSE IF e \in OSErrorClasses \cup {"ValueError", "TypeError", "RuntimeError"} THEN 1
    ELSE 1

\* A save_partition_to_checkpoint without the handler of line 271.
SaveErrorCaughtNever(e) == FALSE

\* save_partition_to_checkpoint, line 271: except OSError.
SaveErrorCaught(e) == e \in OSErrorClasses

\* How load_checkpoint ends on file f.
LoadCase(configured, f) ==
    IF ~configured THEN "not_configured"
    ELSE IF ~f.exists THEN "absent"
    ELSE IF ~f.readable THEN "unreadable"
    ELSE IF \E k \in 1..Len(f.lines) : DecodeFails(f.lines[k]) THEN "malformed"
    ELSE "read"

\* A save_partition_to_checkpoint that opens the file with mode 'w'.
SavePartitionToCheckpointTruncating(configured, f, p) ==
    IF ~configured THEN f
    ELSE IF ~f.writable THEN f
    ELSE File(TRUE, f.readable, TRUE, <<CheckpointLine(p)>>)

\* save_partition_to_checkpoint on file f: the file after it.
SavePartitionToCheckpoint(configured, f, p) ==
    IF ~configured THEN f
    ELSE IF ~f.writable THEN f
    ELSE File(TRUE, f.readable, TRUE, Append(f.lines, CheckpointLine(p)))

\* What the call did.
SaveCase(configured, f) ==
    IF ~configured THEN "skipped" ELSE IF ~f.writable THEN "failed" ELSE "written"

\* The rows system.merges may hold while partition p is waited for: a
\* merge of p in the table, one in the table of that name in another
\* database, one in another table, one of another partition.
MergeRow(database, table, partition_id) ==
    [database |-> database, table |-> table, partition_id |-> partition_id]

MergeRows(p) ==
    {MergeRow(Database, TableName, p),
     MergeRow("staging", TableName, p),
     MergeRow(Database, "events_old", p),
     MergeRow(Database, TableName, CHOOSE q \in PartitionIds : q # p)}

\* ------------------------------------------------------------------ state

VARIABLES
    dry_run,               \* settings.dry_run
    checkpoint_file,       \* whether settings.checkpoint_file is set
    optimize_timeout,      \* settings.optimize_timeout
    poll_interval,         \* settings.poll_interval
    parts,                 \* system.parts: partition id -> PartStates
    file,                  \* the checkpoint file
    changes,               \* changes other processes have made to the two
    pc,                    \* where the process is
    partitions,            \* optimize_table's list of partitions
    completed_partitions,  \* what load_checkpoint returned
    i,                     \* index in partitions of the loop at line 327
    start_time,            \* wait_for_merges_completion's start_time
    now,                   \* time.time(), from the start of the process
    active_merges,         \* what the last check_active_merges returned
    exc,                   \* the exception optimize_table raised, or "none"
    result,                \* how optimize_table returned, or "none"
    exit_code,             \* the exit status of the process, -1 while it runs
    failure_logged,        \* 'Failed to optimize partition' was logged
    run,                   \* number of the invocation of main
    load_case,             \* how load_checkpoint ended in this run
    calls,                 \* optimize_partition calls of this run, in order
    commands,              \* OPTIMIZE commands sent in this run, in order
    command_failed,        \* the OPTIMIZE command of the last call raised
    npolls,                \* check_active_merges calls of the last call
    nsleeps,               \* time.sleep calls of the last call
    wait_began,            \* the clock when the wait of the last call began
    waited,                \* seconds that wait had lasted at its last poll
    last_save,             \* what the last save_partition_to_checkpoint did
    saves,                 \* save_partition_to_checkpoint calls of this run
    appended,              \* partitions this run appended to the file
    recorded_before        \* partitions earlier runs appended to the file

settings == <<dry_run, checkpoint_file, optimize_timeout, poll_interval>>

environment == <<parts, file, changes>>

\* optimize_table's frame.
frame == <<partitions, completed_partitions, i, start_time, now>>

outcome == <<exc, result, failure_logged>>

\* What the last optimize_partition call did.
call == <<command_failed, npolls, nsleeps, wait_began, waited>>

log == <<load_case, calls, commands, last_save, saves, appended>>

vars ==
    <<settings, environment, pc, frame, active_merges, outcome, exit_code,
      run, call, log, recorded_before>>

\* The process-local state of a process that has just been started.
FreshProcess ==
    /\ pc = "get_partitions"
    /\ partitions = <<>>
    /\ completed_partitions = {}
    /\ i = 0
    /\ start_time = 0
    /\ now = 0
    /\ active_merges = {}
    /\ exc = "none"
    /\ result = "none"
    /\ exit_code = -1
    /\ failure_logged = FALSE
    /\ load_case = "none"
    /\ calls = <<>>
    /\ commands = <<>>
    /\ command_failed = FALSE
    /\ npolls = 0
    /\ nsleeps = 0
    /\ wait_began = 0
    /\ waited = 0
    /\ last_save = "none"
    /\ saves = <<>>
    /\ appended = <<>>

\* Every catalog, checkpoint file and mode, with one pair of timings.
InitCatalogs ==
    /\ dry_run \in BOOLEAN
    /\ checkpoint_file \in BOOLEAN
    /\ optimize_timeout \in OptimizeTimeouts
    /\ poll_interval \in PollIntervals
    /\ parts \in [PartitionIds -> PartStates]
    /\ file \in InitialFiles
    /\ (~checkpoint_file => file = NoFile)

\* The other timings, with a catalog of two partitions to optimize and a
\* checkpoint file that does not exist yet.
InitTimings ==
    /\ dry_run = FALSE
    /\ checkpoint_file = TRUE
    /\ \E t \in Timings : optimize_timeout = t[1] /\ poll_interval = t[2]
    /\ parts = [p \in PartitionIds |-> IF Rank(p) <= 2 THEN "many" ELSE "none"]
    /\ file = NoFile

Init ==
    /\ (InitCatalogs \/ InitTimings)
    /\ FreshProcess
    /\ run = 1
    /\ recorded_before = {}
    /\ changes = 0

\* The partition the loop at line 327 is at.
Current == partitions[i]

\* optimize_table's frame is left.
DropFrame ==
    /\ partitions' = <<>>
    /\ completed_partitions' = {}
    /\ i' = 0
    /\ start_time' = 0
    /\ now' = 0

\* Exception e leaves optimize_table and reaches main.
Raise(e) ==
    /\ pc' = "raised"
    /\ exc' = e
    /\ result' = "none"
    /\ DropFrame

\* optimize_table returns.
Return(how) ==
    /\ pc' = "returned"
    /\ exc' = "none"
    /\ result' = how

\* The for loop at line 327 goes on to the next partition, or ends and
\* optimize_table returns (lines 376-387).
NextPartition ==
    /\ partitions' = LoopList(partitions, parts, completed_partitions)
    /\ IF i < Len(partitions')
       THEN /\ i' = i + 1
            /\ pc' = "optimize"
            /\ UNCHANGED <<exc, result>>
       ELSE /\ i' = i
            /\ Return("optimized")
    /\ UNCHANGED <<completed_partitions, start_time, now>>

\* optimize_table, lines 368-374: optimize_partition raised e.
FailPartition(e) ==
    /\ failure_logged' = LoopErrorCaught(e)
    /\ IF LoopErrorCaught(e) /\ ~LoopReraises(e) THEN NextPartition ELSE Raise(e)

\* ---------------------------------------------------------------- actions

\* optimize_table, lines 279-286: get_table_partitions.
GetPartitions ==
    /\ pc = "get_partitions"
    /\ \E err \in {"none"} \cup TransportErrors :
        IF err # "none"
        THEN Raise(err)
        ELSE /\ partitions' = GetTablePartitions(parts)
             /\ IF partitions' = <<>>
                THEN Return("no_partitions")
                ELSE /\ pc' = "load_checkpoint"
                     /\ UNCHANGED <<exc, result>>
             /\ UNCHANGED <<completed_partitions, i, start_time, now>>
    /\ UNCHANGED <<settings, environment, active_merges, failure_logged, exit_code,
                   run, call, log, recorded_before>>

\* optimize_table, lines 288-305: load_checkpoint, the filter, the second
\* get_table_partitions (for the log line) and the empty test.
LoadAndFilter ==
    /\ pc = "load_checkpoint"
    /\ load_case' = LoadCase(checkpoint_file, file)
    /\ \E err \in {"none"} \cup TransportErrors :
        LET completed == LoadCheckpoint(checkpoint_file, file)
            remaining == IF completed # {}
                         THEN FilterCompleted(partitions, completed)
                         ELSE partitions
        IN  /\ completed = {} => err = "none"
            /\ IF err # "none"
               THEN Raise(err)
               ELSE /\ completed_partitions' = completed
                    /\ partitions' = remaining
                    /\ IF remaining = <<>>
                       THEN /\ Return("all_completed")
                            /\ i' = i
                       ELSE /\ pc' = "optimize"
                            /\ i' = 1
                            /\ UNCHANGED <<exc, result>>
                    /\ UNCHANGED <<start_time, now>>
    /\ UNCHANGED <<settings, environment, active_merges, failure_logged, exit_code,
                   run, call, calls, commands, last_save, saves, appended,
                   recorded_before>>

\* optimize_partition, lines 179-218: the dry-run branch, or the OPTIMIZE
\* command and the start of wait_for_merges_completion (line 137).
OptimizePartition ==
    /\ pc = "optimize"
    /\ calls' = Append(calls, Current)
    /\ npolls' = 0
    /\ nsleeps' = 0
    /\ waited' = 0
    /\ wait_began' = now
    /\ IF ~IssuesCommand(dry_run)
       THEN /\ pc' = "save"
            /\ command_failed' = FALSE
            /\ UNCHANGED <<commands, frame, outcome>>
       ELSE \E err \in {"none"} \cup TransportErrors :
            /\ commands' = Append(commands, Current)
            /\ command_failed' = (err # "none")
            /\ IF err = "none" \/ ExecuteErrorCaught(err)
               THEN /\ start_time' = WaitStartTime(now)
                    /\ pc' = AfterCommand
                    /\ UNCHANGED <<partitions, completed_partitions, i, now, outcome>>
               ELSE FailPartition(err)
    /\ UNCHANGED <<settings, environment, active_merges, exit_code, run, load_case,
                   last_save, saves, appended, recorded_before>>

\* wait_for_merges_completion, lines 139-155: one check_active_merges and
\* the tests after it.
Poll ==
    /\ pc = "poll"
    /\ npolls' = npolls + 1
    /\ waited' = now - wait_began
    /\ \E err \in {"none"} \cup TransportErrors :
        IF err # "none"
        THEN /\ FailPartition(err)
             /\ active_merges' = {}
        ELSE \E merges \in SUBSET MergeRows(Current) :
             /\ active_merges' = CheckActiveMerges(merges, Current)
             /\ LET next == PollOutcome(active_merges', now, start_time,
                                         optimize_timeout)
                IN  IF next = "timeout"
                    THEN FailPartition("TimeoutError")
                    ELSE /\ pc' = (IF next = "done" THEN "save" ELSE "sleep")
                         /\ UNCHANGED <<frame, outcome>>
    /\ UNCHANGED <<settings, environment, exit_code, run, command_failed, nsleeps,
                   wait_began, log, recorded_before>>

\* wait_for_merges_completion, line 177: time.sleep(poll_interval).
Sleep ==
    /\ pc = "sleep"
    /\ \E jitter \in Jitters :
        /\ now + poll_interval + jitter <= MaxClock
        /\ now' = now + poll_interval + jitter
    /\ nsleeps' = nsleeps + 1
    /\ pc' = "poll"
    /\ active_merges' = {}
    /\ UNCHANGED <<settings, environment, partitions, completed_partitions, i,
                   start_time, outcome, exit_code, run, command_failed, npolls,
                   wait_began, waited, log, recorded_before>>

\* optimize_table, lines 342-367 and the loop's step: the partition is
\* done, save_partition_to_checkpoint, the next partition or the end.  A
\* file that cannot be written makes open raise PermissionError, an
\* OSError.
Save ==
    /\ pc = "save"
    /\ file' = IF RecordsCompletion(dry_run)
                THEN SavePartitionToCheckpoint(checkpoint_file, file, Current)
                ELSE file
    /\ last_save' = SaveCase(checkpoint_file, file)
    /\ saves' = Append(saves, Current)
    /\ appended' = IF file' # file THEN Append(appended, Current) ELSE appended
    /\ IF SaveCase(checkpoint_file, file) = "failed" /\ ~SaveErrorCaught("OSError")
       THEN FailPartition("OSError")
       ELSE /\ NextPartition
            /\ UNCHANGED failure_logged
    /\ UNCHANGED <<settings, parts, changes, active_merges, exit_code, run,
                   call, load_case, calls, commands, recorded_before>>

Running == {"get_partitions", "load_checkpoint", "optimize", "poll", "sleep", "save"}

\* Where the process is inside the try statement of lines 340-374.
InTry == {"poll", "sleep", "save"}

\* A KeyboardInterrupt is delivered while optimize_table runs: inside the
\* try statement it meets the handler of line 368, which does not catch it.
Interrupt ==
    /\ pc \in Running
    /\ IF pc \in InTry
       THEN FailPartition("KeyboardInterrupt")
       ELSE /\ Raise("KeyboardInterrupt")
            /\ UNCHANGED failure_logged
    /\ active_merges' = {}
    /\ UNCHANGED <<settings, environment, exit_code, run, call, log, recorded_before>>

\* The log of a process that has not done anything yet.
ClearLog ==
    /\ load_case' = "none"
    /\ calls' = <<>>
    /\ commands' = <<>>
    /\ command_failed' = FALSE
    /\ npolls' = 0
    /\ nsleeps' = 0
    /\ wait_began' = 0
    /\ waited' = 0
    /\ last_save' = "none"
    /\ saves' = <<>>
    /\ appended' = <<>>

\* main, lines 30-37: the handlers and the end of the process.
MainExit ==
    /\ pc \in {"returned", "raised"}
    /\ exit_code' = MainExitCode(exc)
    /\ pc' = "exited"
    /\ DropFrame
    /\ active_merges' = {}
    /\ recorded_before' = recorded_before \cup {appended[k] : k \in 1..Len(appended)}
    /\ ClearLog
    /\ UNCHANGED <<settings, environment, outcome, run>>

\* main is started again with the same settings and checkpoint file.
Rerun ==
    /\ pc = "exited"
    /\ run < MaxRuns
    /\ run' = run + 1
    /\ pc' = "get_partitions"
    /\ exc' = "none"
    /\ result' = "none"
    /\ exit_code' = -1
    /\ failure_logged' = FALSE
    /\ UNCHANGED <<settings, environment, frame, active_merges, call, log,
                   recorded_before>>

Next ==
    \/ GetPartitions
    \/ LoadAndFilter
    \/ OptimizePartition
    \/ Poll
    \/ Sleep
    \/ Save
    \/ Interrupt
    \/ MainExit
    \/ Rerun

Spec == Init /\ [][Next]_vars

\* ------------------------------------- a catalog and a file that change

\* The loop of lines 327-374 is running.
InLoop == {"optimize", "poll", "sleep", "save"}

\* While the loop runs, the table gets a partition, loses one, or one
\* becomes recently-single-part.
CatalogChanges ==
    /\ pc \in InLoop
    /\ changes < MaxChanges
    /\ changes' = changes + 1
    /\ \E p \in PartitionIds, st \in PartStates :
        /\ parts[p] # st
        /\ parts' = [parts EXCEPT ![p] = st]
    /\ UNCHANGED <<settings, file, pc, frame, active_merges, outcome, exit_code,
                   run, call, log, recorded_before>>

\* While the loop runs, another process appends to the checkpoint file the
\* id of a partition of the run's list.
CheckpointEdited ==
    /\ pc \in InLoop
    /\ checkpoint_file
    /\ changes < MaxChanges
    /\ changes' = changes + 1
    /\ \E k \in 1..Len(partitions) : LET p == partitions[k] IN
        file' = File(TRUE, file.readable, file.writable,
                     Append(file.lines, BareLine(p)))
    /\ UNCHANGED <<settings, parts, pc, frame, active_merges, outcome, exit_code,
                   run, call, log, recorded_before>>

\* A table of two partitions to optimize, and a checkpoint file that does
\* not exist yet.
InitChanging ==
    /\ dry_run = FALSE
    /\ checkpoint_file = TRUE
    /\ optimize_timeout \in OptimizeTimeouts
    /\ poll_interval \in PollIntervals
    /\ parts = [p \in PartitionIds |-> IF Rank(p) <= 2 THEN "many" ELSE "none"]
    /\ file = NoFile
    /\ FreshProcess
    /\ run = 1
    /\ recorded_before = {}
    /\ changes = 0

\* ------------------------------------------------- a process that runs on

\* A table of one partition to optimize, with every pair of timings whose
\* wait fits in the clock: a sleep begins no later than optimize_timeout
\* into the wait and lasts poll_interval or more.
InitWaiting ==
    /\ dry_run = FALSE
    /\ checkpoint_file = TRUE
    /\ \E t \in Timings \cup (OptimizeTimeouts \X PollIntervals) :
        /\ t[2] > 0
        /\ t[1] + t[2] <= MaxClock
        /\ optimize_timeout = t[1]
        /\ poll_interval = t[2]
    /\ parts = [p \in PartitionIds |-> IF Rank(p) = 1 THEN "many" ELSE "none"]
    /\ file = NoFile
    /\ FreshProcess
    /\ run = 1
    /\ recorded_before = {}
    /\ changes = 0

\* The process is scheduled and its blocking calls (client.execute,
\* time.sleep) return: a step of optimize_partition that can be taken is
\* taken.
SpecWaiting ==
    /\ InitWaiting
    /\ [][Next]_vars
    /\ WF_vars(OptimizePartition)
    /\ WF_vars(Poll)
    /\ WF_vars(Sleep)

NextChanging ==
    \/ Next
    \/ CatalogChanges
    \/ CheckpointEdited

SpecChanging == InitChanging /\ [][NextChanging]_vars

\* ----------------------------------------------------------------- claims

Range(seq) == {seq[k] : k \in 1..Len(seq)}

Ascending(seq) ==
    \A a, b \in 1..Len(seq) : a < b => Rank(seq[a]) < Rank(seq[b])

\* The partition of the last optimize_partition call.
LastCalled == calls[Len(calls)]

\* The catalog partitions that are not recently-single-part.
NeedingWork == {p \in PartitionIds : parts[p] # "none" /\ parts[p] # "one_recent"}

\* The last lines of the file are the lines of the partitions this run
\* appended, in order.
FileEndsWithAppended ==
    /\ Len(file.lines) >= Len(appended)
    /\ \A k \in 1..Len(appended) :
        file.lines[Len(file.lines) - Len(appended) + k] = CheckpointLine(appended[k])

FailureClasses == {"TimeoutError"} \cup TransportErrors

\* C1: in a second run on the same checkpoint file (no dry run, the file
\* read without error, the catalog unchanged), no OPTIMIZE command is sent
\* for a partition an earlier run recorded, and when all partitions
\* needing work were recorded the run returns 'All partitions already
\* completed'.
C1_SecondRunSkipsRecorded ==
    (run > 1 /\ ~dry_run /\ checkpoint_file /\ load_case = "read") =>
        /\ Range(commands) \cap recorded_before = {}
        /\ (pc = "returned" /\ NeedingWork \subseteq recorded_before)
              => result \in {"all_completed", "no_partitions"}

\* C2: a run of optimize_table that returns has called optimize_partition
\* exactly once for each partition of P - R - C, where P is the catalog,
\* R the recently-single-part ids and C what load_checkpoint returned, and
\* for no other partition, in ascending order of partition_id.
C2_VisitsExactlyWork ==
    pc = "returned" =>
        LET work == {p \in NeedingWork : Str(p) \notin completed_partitions}
        IN  /\ Range(calls) = work
            /\ Len(calls) = Cardinality(work)
            /\ Ascending(calls)

\* The catalog holds 2024-01, 2024-02 and 2024-03, the checkpoint holds
\* 2024-01, and the run processed 2024-02 and 2024-03 in that order.
C2_Witness ==
    /\ pc = "returned"
    /\ \A k \in 1..3 : parts[AllPartitionIds[k]] = "many"
    /\ completed_partitions = {Str(AllPartitionIds[1])}
    /\ calls = <<AllPartitionIds[2], AllPartitionIds[3]>>

\* C3: once optimize_partition has ended in a timeout or a polling error
\* the run is over with that error raised to the caller: the last OPTIMIZE
\* command and the last call are those of the failed partition, which is
\* not appended to the checkpoint, and the partitions recorded earlier in
\* the run are still the last lines of the file.
C3_FailureAbortsRun ==
    /\ failure_logged => (pc \in {"raised", "exited"} /\ exc \in FailureClasses)
    /\ (pc = "raised" /\ failure_logged) =>
        /\ commands # <<>>
        /\ commands[Len(commands)] = LastCalled
        /\ LastCalled \notin Range(appended)
        /\ FileEndsWithAppended
        /\ (checkpoint_file /\ file.writable)
              => appended = SubSeq(calls, 1, Len(calls) - 1)

\* A later partition timed out after an earlier one was recorded.
C3_Witness ==
    /\ pc = "raised"
    /\ exc = "TimeoutError"
    /\ failure_logged
    /\ appended # <<>>

\* C4: a TimeoutError is raised only at a poll that reports a merge more
\* than optimize_timeout seconds after the wait of this partition began,
\* and a wait goes on (sleeps) only while no more than optimize_timeout
\* seconds of this partition's wait have passed, whatever the time the
\* earlier partitions took.
C4_TimeoutPerWait ==
    /\ (pc = "raised" /\ exc = "TimeoutError") =>
        /\ waited > optimize_timeout
        /\ active_merges # {}
        /\ failure_logged
    /\ pc = "sleep" =>
        /\ active_merges # {}
        /\ now - wait_began <= optimize_timeout
    /\ (pc = "raised" /\ failure_logged /\ active_merges = {})
          => exc \in TransportErrors

\* The second partition timed out, its wait having begun after the first
\* partition had taken time.
C4_Witness ==
    /\ pc = "raised"
    /\ exc = "TimeoutError"
    /\ Len(calls) = 2
    /\ wait_began > 0
    /\ waited = optimize_timeout + 1

\* C5: when the OPTIMIZE command of a partition raised a transport error,
\* the partition fails only at a later poll; it is done only after a poll
\* that found no merge; and once done its line is appended to the
\* checkpoint file (when one is configured and can be written).
C5_CommandErrorIsNotFatal ==
    command_failed =>
        /\ (pc = "raised" /\ failure_logged) => npolls >= 1
        /\ pc = "save" => (npolls >= 1 /\ active_merges = {})
        /\ (pc \in {"optimize", "returned"} /\ checkpoint_file /\ file.writable) =>
            /\ last_save = "written"
            /\ appended # <<>>
            /\ appended[Len(appended)] = LastCalled
            /\ file.lines[Len(file.lines)] = CheckpointLine(LastCalled)

\* A run returned whose last partition's OPTIMIZE command raised, was
\* polled and was recorded.
C5_Witness ==
    /\ command_failed
    /\ pc = "returned"
    /\ npolls >= 1
    /\ last_save = "written"
    /\ appended[Len(appended)] = LastCalled

\* C6: a dry run sends no OPTIMIZE command, makes no merge-state query,
\* and has called optimize_partition for every partition of its work list
\* in order when it returns.
C6_DryRunIssuesNothing ==
    dry_run =>
        /\ commands = <<>>
        /\ npolls = 0
        /\ nsleeps = 0
        /\ (pc = "returned" /\ result = "optimized") => calls = partitions

\* A dry run returned after visiting three partitions.
C6_Witness ==
    /\ dry_run
    /\ pc = "returned"
    /\ result = "optimized"
    /\ Len(calls) = 3

\* C7: every row check_active_merges returns is a merge of the target
\* table in the target database and of the partition asked for.
C7_OnlyTargetMerges ==
    \A row \in active_merges :
        /\ row.table = TableName
        /\ row.database = Database
        /\ (calls # <<>> => row.partition_id = LastCalled)

\* C8: the step that delivers a KeyboardInterrupt changes neither the
\* checkpoint file nor the commands and polls made, does not log a
\* failure, and leaves the partition being optimized unrecorded; the next
\* step ends the process with status 130 and the file unchanged.
C8_InterruptStopsRun ==
    [][/\ (exc' = "KeyboardInterrupt" /\ exc # "KeyboardInterrupt") =>
            /\ pc' = "raised"
            /\ ~failure_logged'
            /\ file' = file
            /\ commands' = commands
            /\ calls' = calls
            /\ npolls' = npolls
            /\ appended' = appended
            /\ (pc \in InTry => Current \notin Range(appended'))
       /\ (pc = "raised" /\ exc = "KeyboardInterrupt") =>
            /\ pc' = "exited"
            /\ exit_code' = 130
            /\ exit_code' # MainExitCode("OSError")
            /\ ~failure_logged'
            /\ file' = file
      ]_vars

\* The run was interrupted in the poll loop of a partition, after a sleep,
\* an earlier partition being recorded.
C8_Witness ==
    /\ pc = "raised"
    /\ exc = "KeyboardInterrupt"
    /\ nsleeps >= 1
    /\ appended # <<>>
    /\ LastCalled \notin Range(appended)

\* C9: the exit status is 0 exactly when optimize_table returned, 130 when
\* it was interrupted, and a status other than 0 and 130 when it raised a
\* timeout or a query error.
C9_ExitStatusSeparatesOutcomes ==
    pc = "exited" =>
        /\ exc \in {"none", "KeyboardInterrupt"} \cup FailureClasses
        /\ exc = "none" =>
              (exit_code = 0 /\ result \in {"no_partitions", "all_completed", "optimized"})
        /\ exc = "KeyboardInterrupt" => exit_code = 130
        /\ exc \in FailureClasses => (exit_code > 0 /\ exit_code # 130)

\* A catalog query raised clickhouse_driver's Error, which no handler of
\* main names, and the process ended with status 1.
C9_Witness ==
    /\ pc = "exited"
    /\ exc = "Error"
    /\ ~failure_logged
    /\ exit_code = 1

\* C10: when no checkpoint file is configured, or the file is absent,
\* unreadable or holds a line that is not ASCII, load_checkpoint returns
\* the empty set without raising, the work list is every catalog
\* partition needing work, and a run that returns has processed them all.
C10_LoadToleratesBadFiles ==
    load_case \in {"not_configured", "absent", "unreadable", "malformed"} =>
        /\ pc \in Running \cup {"returned"} =>
            /\ completed_partitions = {}
            /\ partitions = OrderByPartitionId(NeedingWork)
        /\ pc = "returned" => (result = "optimized" /\ calls = partitions)
        /\ (pc = "raised" /\ calls = <<>>) => exc = "KeyboardInterrupt"

\* The file listed 2024-01 before a line of binary data, and the run
\* processed all three partitions.
C10_Witness ==
    /\ load_case = "malformed"
    /\ pc = "returned"
    /\ result = "optimized"
    /\ Len(calls) = 3

\* C11: when save_partition_to_checkpoint fails for a partition, the run
\* goes on: a failure that ends the run is never that of a partition whose
\* save was attempted, the loop is next at the partition after it, and a
\* run that returns with an unwritable checkpoint file has optimized and
\* tried to save every partition of its work list, the file unchanged.
C11_SaveFailureIsNotFatal ==
    /\ (pc = "raised" /\ failure_logged) => LastCalled \notin Range(saves)
    /\ (last_save = "failed" /\ pc = "optimize") =>
        /\ saves = SubSeq(partitions, 1, i - 1)
        /\ saves[Len(saves)] = LastCalled
    /\ (last_save = "failed" /\ pc = "returned") =>
        /\ result = "optimized"
        /\ calls = partitions
        /\ saves = partitions
        /\ appended = <<>>

\* The save of the first partition failed and the second partition is
\* being polled.
C11_Witness ==
    /\ last_save = "failed"
    /\ pc = "poll"
    /\ Len(calls) = 2
    /\ saves = <<calls[1]>>
    /\ commands = calls

\* C12: load_checkpoint on a file that save_partition_to_checkpoint has
\* appended to (and that can be read and decoded) returns, for each
\* appended partition p, the string p, and not the line with its trailing
\* '# completed at <timestamp>'.
C12_SaveLoadRoundTrip ==
    (checkpoint_file /\ LoadCase(checkpoint_file, file) = "read") =>
        \A k \in 1..Len(appended) :
            /\ Str(appended[k]) \in LoadCheckpoint(checkpoint_file, file)
            /\ Strip(CheckpointLine(appended[k])) \notin LoadCheckpoint(checkpoint_file, file)

\* C13: partitions are processed one at a time.  Every OPTIMIZE command
\* is that of an optimize_partition call; while a partition is in flight
\* (commanded, polled, slept for, about to be saved) every partition called
\* before it has had its save attempted, so it alone is not finished; a
\* partition is about to be saved only after a poll that found no merge;
\* and between partitions every partition called has had its save
\* attempted.
C13_OneAtATime ==
    /\ Len(commands) <= Len(calls)
    /\ ~dry_run => commands = calls
    /\ pc \in {"poll", "sleep", "save"} =>
        /\ calls # <<>>
        /\ saves = SubSeq(calls, 1, Len(calls) - 1)
        /\ LastCalled = Current
    /\ pc \in {"optimize", "returned"} => saves = calls
    /\ (pc = "save" /\ ~dry_run) => (npolls >= 1 /\ active_merges = {})

\* The third partition is being waited for, the two before it done and
\* their saves attempted.
C13_Witness ==
    /\ pc = "sleep"
    /\ Len(commands) = 3
    /\ saves = SubSeq(calls, 1, 2)

\* C14: every step leaves the checkpoint file as it is, or appends to it
\* the one line of the partition whose optimize_partition call has just
\* returned (in a real run: after a poll that found no merge), the lines
\* before it unchanged; a step that raises appends nothing.
C14_AppendOnly ==
    [][\/ file' = file
       \/ /\ pc = "save"
          /\ calls # <<>>
          /\ Current = LastCalled
          /\ ~dry_run => (npolls >= 1 /\ active_merges = {})
          /\ file'.lines = Append(file.lines, CheckpointLine(Current))
          /\ file'.exists
          /\ pc' # "raised"
      ]_vars

\* A second run has appended a line to a file that began with two lines
\* written by hand and holds the lines of the first run.
C14_Witness ==
    /\ run = 2
    /\ appended # <<>>
    /\ recorded_before # {}
    /\ Len(file.lines) >= 4
    /\ SubSeq(file.lines, 1, 2) = Header
    /\ FileEndsWithAppended

\* The work list computed from what system.parts and the checkpoint hold
\* now.
WorkListNow ==
    LET completed == LoadCheckpoint(checkpoint_file, file)
    IN  IF completed # {} THEN FilterCompleted(GetTablePartitions(parts), completed)
        ELSE GetTablePartitions(parts)

\* C15: once the loop has begun, no step changes the list of partitions
\* the run processes, whatever happens to system.parts and to the
\* checkpoint file meanwhile: the calls made so far are the first
\* partitions of that list, in its order, and a run that returns has
\* called optimize_partition for that list exactly.
C15_WorkSetIsFixed ==
    [][/\ (pc \in InLoop /\ pc' \in InLoop \cup {"returned"}) =>
            /\ partitions' = partitions
            /\ calls' = SubSeq(partitions, 1, Len(calls'))
       /\ (pc \in InLoop /\ pc' = "returned") =>
            (result' = "optimized" /\ calls' = partitions)
      ]_vars

\* A run has returned after optimizing the two partitions it listed at
\* its start, though system.parts or the checkpoint file changed while it
\* ran and the list computed now would be another.
C15_Witness ==
    /\ run = 1
    /\ pc = "returned"
    /\ changes > 0
    /\ calls = <<AllPartitionIds[1], AllPartitionIds[2]>>
    /\ calls = partitions
    /\ WorkListNow # partitions

\* C16: the first check_active_merges of a wait comes before any sleep, at
\* the time the wait began; when it finds no merge the partition is done
\* after that one query and no sleep, and the wait sleeps after its first
\* query only when the query found a merge; whatever optimize_timeout and
\* poll_interval are.
C16_FirstPollDone ==
    /\ (pc = "poll" /\ npolls = 0) => (nsleeps = 0 /\ now = wait_began)
    /\ (pc = "save" /\ ~dry_run /\ npolls = 1) =>
        /\ nsleeps = 0
        /\ now = wait_began
        /\ active_merges = {}
    /\ (pc = "sleep" /\ npolls = 1) => (nsleeps = 0 /\ active_merges # {})
    /\ (pc = "sleep" /\ ~dry_run) => npolls >= 1

\* With an optimize_timeout the wait exceeds as soon as it begins, the
\* second partition was done at its first poll.
C16_Witness ==
    /\ optimize_timeout < 0
    /\ pc = "save"
    /\ Len(calls) = 2
    /\ npolls = 1
    /\ nsleeps = 0
    /\ now - wait_began > optimize_timeout

\* C17: in a wait, a poll that finds no merge ends the wait as done
\* however long the wait has lasted; TimeoutError is raised only by a poll
\* that has returned a merge, more than optimize_timeout seconds into the
\* wait; and a sleep is always followed by a poll, never by the timeout.
C17_DoneBeforeTimeout ==
    /\ (pc = "raised" /\ exc = "TimeoutError") =>
        /\ active_merges # {}
        /\ npolls = nsleeps + 1
    /\ (pc = "save" /\ ~dry_run) =>
        /\ active_merges = {}
        /\ npolls = nsleeps + 1
    /\ pc = "poll" => (npolls = nsleeps /\ exc = "none")
    /\ pc = "sleep" => npolls = nsleeps + 1

\* A partition is done at a poll made more than optimize_timeout seconds
\* after its wait began.
C17_Witness ==
    /\ pc = "save"
    /\ ~dry_run
    /\ nsleeps >= 1
    /\ waited > optimize_timeout
    /\ now - wait_began > optimize_timeout

\* C18: with poll_interval > 0, every optimize_partition call ends: it
\* is done (its save is next) or it has raised a timeout or an error, even
\* when every poll reports a merge; and a wait makes no more than
\* optimize_timeout / poll_interval + 2 polls.
C18_WaitTerminates ==
    /\ [](npolls <= (optimize_timeout \div poll_interval) + 2)
    /\ (pc \in {"optimize", "poll", "sleep"}) ~> (pc \in {"save", "raised"})

\* A wait whose every poll reported a merge ended in a timeout at its
\* last allowed poll.
C18_Witness ==
    /\ pc = "raised"
    /\ exc = "TimeoutError"
    /\ optimize_timeout = 2
    /\ npolls = (optimize_timeout \div poll_interval) + 2
    /\ nsleeps = npolls - 1

\* C19: in a dry run with a checkpoint file that can be written, no
\* OPTIMIZE command is sent and yet every partition optimize_partition was
\* called for is appended to the file, with the line a real run writes:
\* between partitions the partitions appended are the partitions called,
\* and a run that returns has appended its whole work list.
C19_DryRunWritesCheckpoint ==
    (dry_run /\ checkpoint_file /\ file.writable) =>
        /\ commands = <<>>
        /\ appended = saves
        /\ FileEndsWithAppended
        /\ pc \in {"optimize", "returned"} => appended = calls
        /\ (pc = "returned" /\ result = "optimized") =>
            /\ appended = partitions
            /\ file.exists

\* A dry run returned with three partitions appended to the file and no
\* command sent.
C19_Witness ==
    /\ dry_run
    /\ pc = "returned"
    /\ commands = <<>>
    /\ Len(appended) = 3
    /\ appended = partitions
    /\ file.lines[Len(file.lines)] = CheckpointLine(AllPartitionIds[3])

====
